---- MODULE Spec2Model ----
(***************************************************************************)
(* Model of scripts/update_data.py: the incremental GEO update pipeline.   *)
(* Python strings are sequences of one-character strings, so that lower(), *)
(* startswith() and the substring test `kw in combined` are computed.      *)
(* One process (one execution of the script) runs at a time; the corpus    *)
(* file data/geo_data.json and the external registry persist between runs. *)
(***************************************************************************)
EXTENDS Integers, Sequences, FiniteSets, TLC

\* ---------------------------------------------------------------- bounds
MaxCands == 2      \* longest id list the registry returns in the model
MaxRuns == 2       \* executions of the script in one behaviour

\* --------------------------------------------------------------- strings
EmptyStr == <<>>

UPPER == <<"A","B","C","D","E","F","G","H","I","J","K","L","M",
           "N","O","P","Q","R","S","T","U","V","W","X","Y","Z">>
LOWER == <<"a","b","c","d","e","f","g","h","i","j","k","l","m",
           "n","o","p","q","r","s","t","u","v","w","x","y","z">>

\* str.lower() on one character
LowerChar(c) ==
  IF \E i \in 1..Len(UPPER) : UPPER[i] = c
  THEN LOWER[CHOOSE i \in 1..Len(UPPER) : UPPER[i] = c]
  ELSE c

\* str.lower()
Lower(s) == [i \in 1..Len(s) |-> LowerChar(s[i])]

\* the Python test `kw in text` on strings
Contains(text, kw) ==
  \E i \in 0..(Len(text) - Len(kw)) : SubSeq(text, i + 1, i + Len(kw)) = kw

\* str.startswith(prefix)
StartsWith(s, prefix) ==
  /\ Len(s) >= Len(prefix)
  /\ SubSeq(s, 1, Len(prefix)) = prefix

\* -------------------------------------------------------- configuration
SEARCH_CONFIG ==
  [require_keywords |-> <<
      <<"h","a","i","r"," ","f","o","l","l","i","c","l","e">>,
      <<"h","a","i","r"," ","g","r","o","w","t","h">>,
      <<"h","a","i","r"," ","l","o","s","s">>,
      <<"h","a","i","r"," ","c","y","c","l","e">>,
      <<"h","a","i","r"," ","s","h","a","f","t">>,
      <<"h","a","i","r"," ","b","u","l","b">>,
      <<"h","a","i","r"," ","r","o","o","t">>,
      <<"h","a","i","r"," ","s","t","e","m">>,
      <<"a","l","o","p","e","c","i","a">>,
      <<"b","a","l","d","n","e","s","s">>,
      <<"d","e","r","m","a","l"," ","p","a","p","i","l","l","a">>,
      <<"h","a","i","r"," ","k","e","r","a","t","i","n","o","c","y","t","e">>,
      <<"a","n","a","g","e","n">>,
      <<"c","a","t","a","g","e","n">>,
      <<"t","e","l","o","g","e","n">>,
      <<"t","r","i","c","h","o","c","y","t","e">>,
      <<"p","i","l","o","s","e","b","a","c","e","o","u","s">>,
      <<"h","a","i","r"," ","g","r","e","y","i","n","g">>,
      <<"h","a","i","r"," ","g","r","a","y","i","n","g">>,
      <<"s","c","a","l","p">>,
      <<"a","n","d","r","o","g","e","n","e","t","i","c">>,
      <<"o","u","t","e","r"," ","r","o","o","t"," ","s","h","e","a","t","h">>,
      <<"i","n","n","e","r"," ","r","o","o","t"," ","s","h","e","a","t","h">>,
      <<"h","a","i","r"," ","m","a","t","r","i","x">> >>,
   exclude_keywords |-> <<
      <<"o","v","a","r","y">>,
      <<"o","v","a","r","i","a","n">>,
      <<"o","o","c","y","t","e">>,
      <<"g","r","a","n","u","l","o","s","a">>,
      <<"c","u","m","u","l","u","s">>,
      <<"a","n","t","r","a","l"," ","f","o","l","l","i","c","l","e">>,
      <<"p","r","i","m","o","r","d","i","a","l"," ","f","o","l","l","i","c","l","e">>,
      <<"f","o","l","l","i","c","u","l","a","r"," ","f","l","u","i","d">>,
      <<"o","o","g","e","n","e","s","i","s">>,
      <<"c","o","r","p","u","s"," ","l","u","t","e","u","m">>,
      <<"t","h","e","c","a"," ","c","e","l","l">>,
      <<"p","r","e","a","n","t","r","a","l">>,
      <<"p","r","e","o","v","u","l","a","t","o","r","y">>,
      <<"o","v","u","l","a","t","i","o","n">>,
      <<"I","V","F">>,
      <<"i","n"," ","v","i","t","r","o"," ","f","e","r","t","i","l","i","z","a","t","i","o","n">>,
      <<"e","m","b","r","y","o">>,
      <<"b","l","a","s","t","o","c","y","s","t">>,
      <<"u","t","e","r","u","s">>,
      <<"u","t","e","r","i","n","e">>,
      <<"e","n","d","o","m","e","t","r","i","u","m">>,
      <<"p","l","a","c","e","n","t","a">>,
      <<"f","o","l","l","i","c","l","e","-","s","t","i","m","u","l","a","t","i","n","g"," ","h","o","r","m","o","n","e">>,
      <<"F","S","H">>,
      <<"t","h","y","r","o","i","d"," ","f","o","l","l","i","c","l","e">>,
      <<"l","y","m","p","h","o","i","d"," ","f","o","l","l","i","c","l","e">>,
      <<"d","e","n","t","a","l"," ","f","o","l","l","i","c","l","e">>,
      <<"s","a","l","i","v","a","r","y"," ","g","l","a","n","d">>,
      <<"l","y","m","p","h"," ","n","o","d","e">>,
      <<"g","e","r","m","i","n","a","l"," ","c","e","n","t","e","r">> >>]

\* passes_filter(record)
passes_filter(record) ==
  LET title == Lower(record.title)
      summary == Lower(record.summary)
      combined == title \o <<" ">> \o summary
      has_required == \E k \in 1..Len(SEARCH_CONFIG.require_keywords) :
                         Contains(combined, SEARCH_CONFIG.require_keywords[k])
      has_excluded == \E k \in 1..Len(SEARCH_CONFIG.exclude_keywords) :
                         Contains(combined, SEARCH_CONFIG.exclude_keywords[k])
  IN IF ~has_required THEN FALSE
     ELSE IF has_excluded THEN FALSE
     ELSE TRUE

\* ---------------------------------------------- the external registry
\* records Entrez.esummary returns, by uid
Registry == <<
    [Accession |-> <<"G","S","E","1">>,
     title |-> <<"h","a","i","r"," ","l","o","s","s">>,
     summary |-> <<>>],
    [Accession |-> <<"G","S","E","1">>,
     title |-> <<"S","c","a","l","p"," ","I","V","F">>,
     summary |-> <<"F","S","H">>],
    [Accession |-> <<"G","S","E","2">>,
     title |-> <<"A","l","o","p","e","c","i","a">>,
     summary |-> <<"o","v","a","r","y">>],
    [Accession |-> <<"G","S","E","2">>,
     title |-> <<"r","n","a">>,
     summary |-> <<"T","e","l","o","g","e","n">>],
    [Accession |-> <<"G","D","S","1">>,
     title |-> <<"h","a","i","r"," ","l","o","s","s">>,
     summary |-> <<>>],
    [Accession |-> <<"G","S","E","3">>,
     title |-> <<"l","i","v","e","r">>,
     summary |-> <<>>] >>

\* ------------------------------------------------- summarization service
\* what requests.post can produce for one call: an exception (timeout,
\* network), a non-200 status, a 200 whose body is not the expected JSON,
\* or a 200 with a content string (a sequence of tokens)
Contents == { <<"t">>,
              <<"<think>", "t", "</think>", " ", "t">>,
              <<"<think>", "t", "</think>", " ">> }

Responses ==
  { [kind |-> k, content |-> <<>>] :
       k \in {"timeout", "network", "status", "malformed"} }
  \cup { [kind |-> "ok", content |-> c] : c \in Contents }

FailureKinds == {"no_key", "timeout", "network", "status", "malformed"}

\* re.sub(r'<think>.*?</think>', '', content, flags=re.DOTALL)
RECURSIVE StripThink(_)
StripThink(s) ==
  LET starts == { i \in 1..Len(s) :
                    /\ s[i] = "<think>"
                    /\ \E j \in (i + 1)..Len(s) : s[j] = "</think>" }
  IN IF starts = {} THEN s
     ELSE LET i == CHOOSE x \in starts : \A y \in starts : x <= y
              j == CHOOSE x \in (i + 1)..Len(s) :
                     /\ s[x] = "</think>"
                     /\ \A y \in (i + 1)..Len(s) : s[y] = "</think>" => x <= y
          IN SubSeq(s, 1, i - 1) \o StripThink(SubSeq(s, j + 1, Len(s)))

\* str.strip()
RECURSIVE Strip(_)
Strip(s) ==
  IF s = <<>> THEN s
  ELSE IF Head(s) = " " THEN Strip(Tail(s))
  ELSE IF s[Len(s)] = " " THEN Strip(SubSeq(s, 1, Len(s) - 1))
  ELSE s

\* generate_ai_summary whose except clause only covers the transport errors
\* of the post: a body that is not the expected JSON raises out of it
generate_ai_summary_narrow_except(key, resp) ==
  IF key = EmptyStr THEN [raised |-> FALSE, value |-> EmptyStr]
  ELSE IF resp.kind = "ok"
       THEN [raised |-> FALSE, value |-> Strip(StripThink(resp.content))]
  ELSE IF resp.kind = "malformed" THEN [raised |-> TRUE, value |-> EmptyStr]
  ELSE [raised |-> FALSE, value |-> EmptyStr]

\* generate_ai_summary: key is MINIMAX_API_KEY, resp the outcome of the post.
\* raised tells whether an exception leaves the function: the try block
\* holds the post and the decoding of the body, and `except Exception`
\* catches all of the outcomes, so the function always returns a string
generate_ai_summary(key, resp) ==
  IF key = EmptyStr THEN [raised |-> FALSE, value |-> EmptyStr]
  ELSE IF resp.kind = "ok"
       THEN [raised |-> FALSE, value |-> Strip(StripThink(resp.content))]
  ELSE [raised |-> FALSE, value |-> EmptyStr]

\* ------------------------------------------------------------ normalizer
GSE == <<"G","S","E">>

\* parse_record: <<>> is None, <<r>> the returned dict.  ai_summary is the
\* result of the generate_ai_summary call of line 190.  The dict's other
\* fields are constants or verbatim copies of candidate fields.
parse_record(record, ai_summary) ==
  IF ~StartsWith(record.Accession, GSE) THEN <<>>
  ELSE << [Accession |-> record.Accession,
           Title |-> record.title,
           Data_Type |-> "bulk RNA-seq",
           Summary |-> record.summary,
           AI_Summary_CN |-> ai_summary,
           AI_Summary |-> ai_summary] >>

\* --------------------------------------------------------------- storage
\* json.dump(data, f, indent=2): the chunks written to the file, in order
json_dump(data) ==
  << [tok |-> "["] >>
  \o [i \in 1..Len(data) |-> [tok |-> "rec", rec |-> data[i]]]
  \o << [tok |-> "]"] >>

\* whether json.load accepts the bytes (a complete JSON array)
json_valid(bytes) ==
  /\ Len(bytes) >= 2
  /\ bytes[1].tok = "["
  /\ bytes[Len(bytes)].tok = "]"
  /\ \A i \in 2..(Len(bytes) - 1) : bytes[i].tok = "rec"

\* json.load(f) on accepted bytes
json_load(bytes) == [i \in 1..(Len(bytes) - 2) |-> bytes[i + 1].rec]

NoFile == [exists |-> FALSE, bytes |-> <<>>]

\* ------------------------------------------------------ merge primitives
\* the set comprehension of line 241 returning nothing
accessions_of_empty(data) == {}

\* existing_accessions = {d["Accession"] for d in existing_data}
accessions_of(data) == { data[i].Accession : i \in 1..Len(data) }

\* a membership test that never finds the accession
is_known_never(accession, accessions) == FALSE

\* accession in existing_accessions
is_known(accession, accessions) == accession \in accessions

\* appending instead of prepending
insert_back(data, parsed) == Append(data, parsed)

\* existing_data.insert(0, parsed)
insert_front(data, parsed) == <<parsed>> \o data

\* forgetting to register the accession
add_accession_forgotten(accessions, accession) == accessions

\* existing_accessions.add(accession)
add_accession(accessions, accession) == accessions \cup {accession}

\* saving on every run
should_save_always(count) == TRUE

\* if new_count > 0
should_save(count) == count > 0

\* a credential check that never fires
email_missing_never(email) == FALSE

\* if not NCBI_EMAIL
email_missing(email) == email = EmptyStr

\* ------------------------------------------------------------ the inputs
\* id lists Entrez.esearch can return: uids are indices into Registry
RECURSIVE SeqsUpTo(_, _)
SeqsUpTo(S, n) ==
  IF n = 0 THEN { <<>> }
  ELSE LET shorter == SeqsUpTo(S, n - 1)
       IN shorter \cup { Append(q, x) : q \in shorter, x \in S }

IdLists == SeqsUpTo(1..Len(Registry), MaxCands)

Emails == { EmptyStr, <<"a","@","b">> }
ApiKeys == { EmptyStr, <<"k">> }

\* a corpus file left by earlier runs: two series that have since left the
\* registry's 30-day window, the newer one first
SeedCorpus ==
  << parse_record([Accession |-> <<"G","S","E","8">>,
                   title |-> <<"s","c","a","l","p">>,
                   summary |-> <<>>], <<"t">>)[1],
     parse_record([Accession |-> <<"G","S","E","7">>,
                   title |-> <<"a","n","a","g","e","n">>,
                   summary |-> <<>>], <<>>)[1] >>

InitialFiles ==
  { NoFile,
    [exists |-> TRUE, bytes |-> json_dump(<<>>)],
    [exists |-> TRUE, bytes |-> json_dump(SeedCorpus)] }

\* ----------------------------------------------------------------- state
VARIABLES
  pc,                  \* position of the running script, "idle" between runs
  NCBI_EMAIL,          \* line 16
  MINIMAX_API_KEY,     \* line 18
  Entrez_email,        \* Entrez.email, set by setup_entrez
  file,                \* data/geo_data.json: [exists, bytes]
  hits,                \* what the registry search currently returns
  existing_data,       \* main's list
  existing_accessions, \* main's set
  id_list,             \* main's id_list
  summaries,           \* main's summaries
  idx,                 \* position of the for loop of line 257 (1-based)
  new_count,           \* main's new_count
  dumped,              \* chunks json.dump has written in save_data
  runs,                \* history: completed executions
  log,                 \* history: one entry per candidate processed this run
  calls,               \* history: search / fetch / save calls of this run
  loaded,              \* history: existing_data as load_existing_data gave it
  fileAtStart,         \* history: file when the run started
  fileAtSave,          \* history: file when save_data was called
  failedIn,            \* history: the call whose exception ended the run
  rerun                \* history: "saved" / "nothing_new" when the previous
                       \* run iterated every candidate and returned that
                       \* way and hits has not changed since, else "no"

vars == << pc, NCBI_EMAIL, MINIMAX_API_KEY, Entrez_email, file, hits,
           existing_data, existing_accessions, id_list, summaries, idx,
           new_count, dumped, runs, log, calls, loaded, fileAtStart,
           fileAtSave, failedIn, rerun >>

env == << NCBI_EMAIL, MINIMAX_API_KEY, Entrez_email >>
locals == << existing_data, existing_accessions, id_list, summaries, idx,
             new_count, dumped >>
NoCalls == [search |-> 0, fetch |-> 0, save |-> 0]

Init ==
  /\ pc = "idle"
  /\ NCBI_EMAIL = EmptyStr
  /\ MINIMAX_API_KEY = EmptyStr
  /\ Entrez_email = EmptyStr
  /\ file \in InitialFiles
  /\ hits \in IdLists
  /\ existing_data = <<>>
  /\ existing_accessions = {}
  /\ id_list = <<>>
  /\ summaries = <<>>
  /\ idx = 1
  /\ new_count = 0
  /\ dumped = 0
  /\ runs = 0
  /\ log = <<>>
  /\ calls = NoCalls
  /\ loaded = <<>>
  /\ fileAtStart = file
  /\ fileAtSave = file
  /\ failedIn = "none"
  /\ rerun = "no"

\* the registry's content changes between two runs: a series enters the
\* search result, or the oldest hit leaves the 30-day window
registry_update ==
  /\ pc = "idle"
  /\ 0 < runs /\ runs < MaxRuns
  /\ \/ /\ Len(hits) < MaxCands
        /\ \E uid \in 1..Len(Registry) : hits' = Append(hits, uid)
     \/ /\ hits # <<>>
        /\ hits' = Tail(hits)
  /\ rerun' = "no"
  /\ UNCHANGED << pc, env, file, locals, runs, log, calls, loaded,
                  fileAtStart, fileAtSave, failedIn >>

\* the script starts: module level reads the environment, then main() up to
\* setup_entrez()
main_start ==
  /\ pc = "idle"
  /\ runs < MaxRuns
  /\ \E email \in Emails, key \in ApiKeys :
       /\ NCBI_EMAIL' = email
       /\ MINIMAX_API_KEY' = key
       /\ IF email_missing(email)
          THEN pc' = "returned" /\ Entrez_email' = EmptyStr
          ELSE pc' = "load" /\ Entrez_email' = email
  /\ fileAtStart' = file
  /\ fileAtSave' = file
  /\ UNCHANGED << file, hits, locals, runs, log, calls, loaded, failedIn,
                  rerun >>

\* existing_data = load_existing_data(); existing_accessions = {...}
load_ok ==
  /\ pc = "load"
  /\ ~file.exists \/ json_valid(file.bytes)
  /\ LET data == IF file.exists THEN json_load(file.bytes) ELSE <<>>
     IN /\ existing_data' = data
        /\ existing_accessions' = accessions_of(data)
        /\ loaded' = data
  /\ pc' = "search"
  /\ UNCHANGED << env, file, hits, id_list, summaries, idx, new_count, dumped,
                  runs, log, calls, fileAtStart, fileAtSave, failedIn,
                  rerun >>

\* json.load raises on a file that is not a complete document
load_fail ==
  /\ pc = "load"
  /\ file.exists /\ ~json_valid(file.bytes)
  /\ pc' = "failed"
  /\ failedIn' = "load"
  /\ UNCHANGED << env, file, hits, locals, runs, log, calls, loaded,
                  fileAtStart, fileAtSave, rerun >>

\* id_list = search_geo(); if not id_list: return
search_ok ==
  /\ pc = "search"
  /\ id_list' = hits
  /\ calls' = [calls EXCEPT !.search = @ + 1]
  /\ pc' = IF hits = <<>> THEN "returned" ELSE "fetch"
  /\ UNCHANGED << env, file, hits, existing_data, existing_accessions,
                  summaries, idx, new_count, dumped, runs, log, loaded,
                  fileAtStart, fileAtSave, failedIn, rerun >>

\* Entrez.esearch / Entrez.read raises
search_fail ==
  /\ pc = "search"
  /\ calls' = [calls EXCEPT !.search = @ + 1]
  /\ pc' = "failed"
  /\ failedIn' = "search"
  /\ UNCHANGED << env, file, hits, locals, runs, log, loaded, fileAtStart,
                  fileAtSave, rerun >>

\* summaries = fetch_summaries(id_list); new_count = 0
fetch_ok ==
  /\ pc = "fetch"
  /\ summaries' = [i \in 1..Len(id_list) |-> Registry[id_list[i]]]
  /\ calls' = [calls EXCEPT !.fetch = @ + 1]
  /\ new_count' = 0
  /\ idx' = 1
  /\ pc' = "loop"
  /\ UNCHANGED << env, file, hits, existing_data, existing_accessions,
                  id_list, dumped, runs, log, loaded, fileAtStart, fileAtSave,
                  failedIn, rerun >>

\* Entrez.esummary / Entrez.read raises
fetch_fail ==
  /\ pc = "fetch"
  /\ calls' = [calls EXCEPT !.fetch = @ + 1]
  /\ pc' = "failed"
  /\ failedIn' = "fetch"
  /\ UNCHANGED << env, file, hits, locals, runs, log, loaded, fileAtStart,
                  fileAtSave, rerun >>

\* whether the ordered sequence holds a record with this accession
InCorpus(data, accession) ==
  \E i \in 1..Len(data) : data[i].Accession = accession

\* the history entry of one loop iteration
LogEntry(step, parse, ai, slept, parsed) ==
  [uid |-> id_list[idx],
   acc |-> summaries[idx].Accession,
   inCorpus |-> InCorpus(existing_data, summaries[idx].Accession),
   step |-> step, parse |-> parse, ai |-> ai, slept |-> slept,
   parsed |-> parsed]

loop_frame ==
  UNCHANGED << env, file, hits, id_list, summaries, dumped, runs, calls,
               loaded, fileAtStart, fileAtSave, rerun >>

\* line 261: if accession in existing_accessions: continue
loop_skip_known ==
  /\ pc = "loop" /\ idx <= Len(summaries)
  /\ LET record == summaries[idx]
     IN /\ is_known(record.Accession, existing_accessions)
        /\ log' = Append(log, LogEntry("known", FALSE, "not_called",
                                       FALSE, <<>>))
  /\ idx' = idx + 1
  /\ UNCHANGED << pc, existing_data, existing_accessions, new_count,
                  failedIn >>
  /\ loop_frame

\* line 265: if not accession.startswith("GSE"): continue
loop_skip_not_gse ==
  /\ pc = "loop" /\ idx <= Len(summaries)
  /\ LET record == summaries[idx]
     IN /\ ~is_known(record.Accession, existing_accessions)
        /\ ~StartsWith(record.Accession, GSE)
        /\ log' = Append(log, LogEntry("not_gse", FALSE, "not_called",
                                       FALSE, <<>>))
  /\ idx' = idx + 1
  /\ UNCHANGED << pc, existing_data, existing_accessions, new_count,
                  failedIn >>
  /\ loop_frame

\* line 269: if not passes_filter(record): continue
loop_skip_filtered ==
  /\ pc = "loop" /\ idx <= Len(summaries)
  /\ LET record == summaries[idx]
     IN /\ ~is_known(record.Accession, existing_accessions)
        /\ StartsWith(record.Accession, GSE)
        /\ ~passes_filter(record)
        /\ log' = Append(log, LogEntry("filtered", FALSE, "not_called",
                                       FALSE, <<>>))
  /\ idx' = idx + 1
  /\ UNCHANGED << pc, existing_data, existing_accessions, new_count,
                  failedIn >>
  /\ loop_frame

\* lines 273-278: parsed = parse_record(record); if parsed: insert, add, count.
\* resp is the outcome of the post inside generate_ai_summary (no post is
\* made without a key); time.sleep(1) runs iff the summary is non-empty; an
\* exception leaving generate_ai_summary would leave main
loop_parse ==
  /\ pc = "loop" /\ idx <= Len(summaries)
  /\ LET record == summaries[idx]
     IN /\ ~is_known(record.Accession, existing_accessions)
        /\ StartsWith(record.Accession, GSE)
        /\ passes_filter(record)
        /\ \E resp \in Responses :
             /\ MINIMAX_API_KEY = EmptyStr => resp.kind = "timeout"
             /\ LET result == generate_ai_summary(MINIMAX_API_KEY, resp)
                    ai_summary == result.value
                    parsed == parse_record(record, ai_summary)
                    ai == IF MINIMAX_API_KEY = EmptyStr THEN "no_key"
                          ELSE resp.kind
                IN IF result.raised
                   THEN /\ log' = Append(log, LogEntry("aborted", TRUE, ai,
                                                       FALSE, <<>>))
                        /\ pc' = "failed"
                        /\ failedIn' = "summarize"
                        /\ UNCHANGED << existing_data, existing_accessions,
                                        new_count, idx >>
                   ELSE /\ log' = Append(log, LogEntry(
                                      IF parsed # <<>> THEN "inserted"
                                      ELSE "dropped",
                                      TRUE, ai, ai_summary # EmptyStr, parsed))
                        /\ IF parsed # <<>>
                           THEN /\ existing_data' =
                                     insert_front(existing_data, parsed[1])
                                /\ existing_accessions' =
                                     add_accession(existing_accessions,
                                                   record.Accession)
                                /\ new_count' = new_count + 1
                           ELSE UNCHANGED << existing_data,
                                             existing_accessions, new_count >>
                        /\ idx' = idx + 1
                        /\ UNCHANGED << pc, failedIn >>
  /\ loop_frame

\* lines 280-284 after the loop: save_data(existing_data) is entered, or
\* main returns with nothing written
loop_end ==
  /\ pc = "loop" /\ idx > Len(summaries)
  /\ IF should_save(new_count)
     THEN /\ pc' = "save_open"
          /\ calls' = [calls EXCEPT !.save = @ + 1]
          /\ fileAtSave' = file
     ELSE /\ pc' = "returned"
          /\ UNCHANGED << calls, fileAtSave >>
  /\ UNCHANGED << env, file, hits, locals, runs, log, loaded, fileAtStart,
                  failedIn, rerun >>

save_frame ==
  UNCHANGED << env, hits, existing_data, existing_accessions, id_list,
               summaries, idx, new_count, runs, log, calls, loaded,
               fileAtStart, fileAtSave, rerun >>

\* save_data: open(DATA_FILE, 'w') creates or truncates the file
save_open_ok ==
  /\ pc = "save_open"
  /\ file' = [exists |-> TRUE, bytes |-> <<>>]
  /\ dumped' = 0
  /\ pc' = "save_dump"
  /\ UNCHANGED failedIn
  /\ save_frame

\* save_data: open raises (missing directory, permission), nothing touched
save_open_fail ==
  /\ pc = "save_open"
  /\ pc' = "failed"
  /\ failedIn' = "save"
  /\ UNCHANGED << file, dumped >>
  /\ save_frame

\* save_data: json.dump writes its next chunk; after the last one the with
\* block closes the file and main returns
save_dump_chunk ==
  /\ pc = "save_dump"
  /\ LET chunks == json_dump(existing_data)
     IN /\ dumped < Len(chunks)
        /\ file' = [file EXCEPT !.bytes = Append(@, chunks[dumped + 1])]
        /\ dumped' = dumped + 1
        /\ pc' = IF dumped + 1 = Len(chunks) THEN "returned" ELSE "save_dump"
  /\ UNCHANGED failedIn
  /\ save_frame

\* save_data: a write or the serialization raises part-way; the with block
\* closes the file as it is and the exception leaves main
save_dump_fail ==
  /\ pc = "save_dump"
  /\ dumped < Len(json_dump(existing_data))
  /\ pc' = "failed"
  /\ failedIn' = "save"
  /\ UNCHANGED << file, dumped >>
  /\ save_frame

\* the process ends (main returned or an exception left it); its memory is
\* gone, the file and the registry stay
process_exit ==
  /\ pc \in {"returned", "failed"}
  /\ pc' = "idle"
  /\ runs' = runs + 1
  /\ rerun' = IF pc = "returned" /\ calls.fetch = 1
               THEN (IF calls.save = 1 THEN "saved" ELSE "nothing_new")
               ELSE "no"
  /\ NCBI_EMAIL' = EmptyStr
  /\ MINIMAX_API_KEY' = EmptyStr
  /\ Entrez_email' = EmptyStr
  /\ existing_data' = <<>>
  /\ existing_accessions' = {}
  /\ id_list' = <<>>
  /\ summaries' = <<>>
  /\ idx' = 1
  /\ new_count' = 0
  /\ dumped' = 0
  /\ log' = <<>>
  /\ calls' = NoCalls
  /\ loaded' = <<>>
  /\ fileAtStart' = file
  /\ fileAtSave' = file
  /\ failedIn' = "none"
  /\ UNCHANGED << file, hits >>

Next ==
  \/ registry_update
  \/ main_start
  \/ load_ok
  \/ load_fail
  \/ search_ok
  \/ search_fail
  \/ fetch_ok
  \/ fetch_fail
  \/ loop_skip_known
  \/ loop_skip_not_gse
  \/ loop_skip_filtered
  \/ loop_parse
  \/ loop_end
  \/ save_open_ok
  \/ save_open_fail
  \/ save_dump_chunk
  \/ save_dump_fail
  \/ process_exit

Spec == Init /\ [][Next]_vars
\* ------------------------------------------------------------ properties
\* no two records of the sequence carry the same accession
Unique(data) ==
  \A i, j \in 1..Len(data) :
     i # j => data[i].Accession # data[j].Accession

\* the records the file holds, complete document or not
PersistedRecords(f) ==
  LET recs == SelectSeq(f.bytes, LAMBDA c : c.tok = "rec")
  IN [i \in 1..Len(recs) |-> recs[i].rec]

\* the index of the record with this accession
IndexOf(data, accession) ==
  CHOOSE k \in 1..Len(data) : data[k].Accession = accession

Inserted == { i \in 1..Len(log) : log[i].step = "inserted" }

RunEnded == pc \in {"returned", "failed"}

\* C1: accession uniqueness. Starting from a corpus file without repeated
\* accessions, the in-memory corpus at every step and the records of the
\* corpus file at every step (so after every save) hold no accession twice,
\* whatever list the registry returns.
C1_AccessionUnique ==
  /\ Unique(existing_data)
  /\ Unique(PersistedRecords(file))

\* C1 witness: a saved run whose candidate list repeated an accession it
\* had inserted earlier in the same list
C1_Witness ==
  /\ pc = "returned" /\ calls.save = 1 /\ json_valid(file.bytes)
  /\ \E i, j \in 1..Len(log) :
       /\ i < j
       /\ log[i].step = "inserted"
       /\ log[j].acc = log[i].acc

\* C2: idempotence. In a run that follows a run which iterated all its
\* candidates and returned (corpus saved, or nothing to save), with the
\* registry returning the same list, nothing is inserted, save_data is not
\* called and the corpus file stays what the previous run left.
C2_Idempotent ==
  (pc # "idle" /\ rerun # "no") =>
     /\ new_count = 0
     /\ Inserted = {}
     /\ calls.save = 0
     /\ file = fileAtStart

\* C2 witness: the second run ends after meeting again the candidates the
\* first run inserted and saved
C2_Witness ==
  /\ pc = "returned" /\ rerun = "saved" /\ calls.fetch = 1
  /\ \E i \in 1..Len(log) : log[i].step = "known"

\* newest first within data: later insertions of this run lie before earlier
\* ones, and every insertion lies before every loaded record
NewestFirst(data) ==
  /\ \A i \in Inserted :
       /\ InCorpus(data, log[i].acc)
       /\ data[IndexOf(data, log[i].acc)] = log[i].parsed[1]
  /\ \A i, j \in Inserted :
       i < j => IndexOf(data, log[j].acc) < IndexOf(data, log[i].acc)
  /\ \A i \in Inserted : \A m \in 1..Len(loaded) :
       /\ InCorpus(data, loaded[m].Accession)
       /\ IndexOf(data, log[i].acc) < IndexOf(data, loaded[m].Accession)

\* C3: newest-first ordering. Of two candidates inserted in one run the one
\* processed later is at the smaller index, and every record inserted in the
\* run is at a smaller index than every record loaded at run start; in
\* memory throughout, and in the file once the save has completed.
C3_NewestFirst ==
  /\ NewestFirst(existing_data)
  /\ (pc = "returned" /\ calls.save = 1) =>
        (json_valid(file.bytes) /\ NewestFirst(json_load(file.bytes)))

\* C3 witness: a saved run that inserted two candidates on top of a loaded
\* corpus
C3_Witness ==
  /\ pc = "returned" /\ calls.save = 1
  /\ Cardinality(Inserted) >= 2
  /\ Len(loaded) >= 1

\* an exclude keyword occurs, in any letter case, in the title or in the
\* summary of the candidate
HasExcludedAnyCase(record) ==
  \E k \in 1..Len(SEARCH_CONFIG.exclude_keywords) :
     LET kw == Lower(SEARCH_CONFIG.exclude_keywords[k])
     IN \/ Contains(Lower(record.title), kw)
        \/ Contains(Lower(record.summary), kw)

\* C4: exclusion dominates inclusion. For every candidate the loop met, if
\* an exclude keyword occurs (in any letter case) in its title or summary,
\* passes_filter is false for it and it was not inserted.
C4_ExclusionDominates ==
  \A i \in 1..Len(log) :
     HasExcludedAnyCase(Registry[log[i].uid]) =>
        /\ ~passes_filter(Registry[log[i].uid])
        /\ log[i].step # "inserted"

\* C5: a failed save leaves the prior corpus intact. When the run has failed
\* inside save_data the file holds what it held when save_data was called.
C5_FailedSaveKeepsFile ==
  (pc = "failed" /\ failedIn = "save") => file = fileAtSave

\* C6: a missing NCBI_EMAIL aborts without side effects. In a run with an
\* empty NCBI_EMAIL main has returned, no search, fetch or save call and no
\* loop iteration (so no summarization) happened, and the file is as it was.
C6_NoEmailNoEffects ==
  (pc # "idle" /\ NCBI_EMAIL = EmptyStr) =>
     /\ pc = "returned"
     /\ calls = NoCalls
     /\ log = <<>>
     /\ Entrez_email = EmptyStr
     /\ file = fileAtStart

\* C6 witness: main returned for lack of the credential although the
\* registry had candidates and a corpus file exists
C6_Witness ==
  /\ pc = "returned" /\ NCBI_EMAIL = EmptyStr
  /\ hits # <<>> /\ file.exists

\* C7: a summarization failure never blocks acceptance. Every candidate
\* that was new, had a GSE accession and passed the filter, and whose
\* summarization failed (timeout, network error, non-200 status, malformed
\* body) or was skipped for lack of the key, was inserted with both
\* AI-summary fields equal to the empty string, and the run did not abort
\* there.
C7_SummaryFailureStillInserts ==
  \A i \in 1..Len(log) :
     ( /\ ~log[i].inCorpus
       /\ StartsWith(log[i].acc, GSE)
       /\ passes_filter(Registry[log[i].uid])
       /\ log[i].ai \in FailureKinds ) =>
        /\ log[i].step = "inserted"
        /\ log[i].parsed # <<>>
        /\ log[i].parsed[1].AI_Summary = EmptyStr
        /\ log[i].parsed[1].AI_Summary_CN = EmptyStr
        /\ InCorpus(existing_data, log[i].acc)
        /\ existing_data[IndexOf(existing_data, log[i].acc)] = log[i].parsed[1]
        /\ failedIn # "summarize"

\* C7 witness: a run with the key set saved a record whose summarization
\* came back malformed
C7_Witness ==
  /\ pc = "returned" /\ calls.save = 1
  /\ \E i \in Inserted : log[i].ai = "malformed"

\* every loaded record is in data, unchanged, in the loaded relative order
KeepsLoaded(data) ==
  /\ \A m \in 1..Len(loaded) : \E p \in 1..Len(data) : data[p] = loaded[m]
  /\ \A m, n \in 1..Len(loaded) :
       m < n => \E p, q \in 1..Len(data) :
                  p < q /\ data[p] = loaded[m] /\ data[q] = loaded[n]

\* C8: existing records are preserved. After every run, every record that
\* was loaded is still in the corpus, in memory and in the file, unchanged
\* and in the same relative order.
C8_ExistingPreserved ==
  RunEnded =>
     /\ KeepsLoaded(existing_data)
     /\ KeepsLoaded(PersistedRecords(file))

\* C9: single end-of-run persistence. save_data is called at most once in a
\* run, only after the loop has passed every fetched candidate and only
\* with at least one insertion; the file differs from its content at run
\* start only through that call; a run that found nothing, inserted
\* nothing, or failed in load, search or fetch leaves the file as it was.
C9_SingleSaveAtEnd ==
  /\ calls.save <= 1
  /\ calls.save = 1 =>
       /\ calls.fetch = 1
       /\ idx > Len(summaries)
       /\ new_count > 0
  /\ file # fileAtStart => calls.save = 1
  /\ ( /\ RunEnded
       /\ \/ id_list = <<>>
          \/ new_count = 0
          \/ failedIn \in {"load", "search", "fetch"} ) =>
       file = fileAtStart

\* C9 witness: a run over two candidates that saved once, with a new file
C9_Witness ==
  /\ pc = "returned" /\ calls.save = 1
  /\ Len(summaries) >= 2 /\ Len(log) = Len(summaries)
  /\ file # fileAtStart

\* C10: known accessions are skipped before normalization. A candidate whose
\* accession was in the corpus when the loop reached it (loaded, or
\* inserted earlier in the run) took the `continue` of the membership test:
\* parse_record was not invoked, no summarization call, no pause.
C10_KnownSkipped ==
  \A i \in 1..Len(log) :
     log[i].inCorpus =>
        /\ log[i].step = "known"
        /\ ~log[i].parse
        /\ log[i].ai = "not_called"
        /\ ~log[i].slept

\* C10 witness: with the summarization key set, the loop met a candidate
\* whose accession was loaded from the file
C10_Witness ==
  /\ MINIMAX_API_KEY # EmptyStr
  /\ \E i \in 1..Len(log) :
       /\ log[i].step = "known"
       /\ InCorpus(loaded, log[i].acc)

====
